---- MODULE Spec2Model ----
(***************************************************************************)
(* Model of imagedupfinder's duplicate matcher (package internal/match):   *)
(* PerceptualMatcher (BK-tree + union-find), ExactMatcher, buildGroups and *)
(* selectKeepAndRemove, with the brute-force Grouper of package internal   *)
(* as the reference algorithm; of hash.HammingDistance, the bkTree and the *)
(* unionFind on their own; of the storage of the groups (UpdateGroups,     *)
(* GetDuplicateGroups) with runScan and runClean of package cmd; of the    *)
(* worker pool of Scanner.ScanFolder; and of the idle timeout of the web   *)
(* server (package internal/server).                                       *)
(*                                                                         *)
(* Representation.  An *ImageInfo is a pointer p (a small integer); items  *)
(* maps each pointer to the fields of the struct it points to and images   *)
(* is the []*ImageInfo slice handed to FindGroups.  A uint64 hash is the   *)
(* set of the positions (0..63) of its 1 bits.  Slice indices are 0-based  *)
(* as in the source, so index i of the source is images[i + 1].  A Go map  *)
(* is a function; ranging over it visits its keys in any order.            *)
(***************************************************************************)
EXTENDS Integers, Sequences, FiniteSets, TLC

VARIABLES
    mode,        \* which Matcher runs: "perceptual" or "exact"
    req,         \* the threshold passed to NewPerceptualMatcher
    threshold,   \* PerceptualMatcher.threshold
    items,       \* pointer -> ImageInfo fields
    images,      \* the input slice of FindGroups
    pc,          \* position inside FindGroups / buildGroups
    i,           \* loop index of FindGroups' first range loop
    uf,          \* the unionFind
    tree,        \* the bkTree, an arena of bkNodes (node 1 is the root)
    groupMap,    \* map[int][]*ImageInfo
    todo,        \* keys of groupMap the range loop of buildGroups has not visited
    groupID,     \* buildGroups' groupID counter
    groups,      \* the []*DuplicateGroup being built / returned
    run,         \* 1 for the first call of FindGroups, 2 for the second
    first,       \* the input and the result of the first call
    inserted,    \* the hashes given to bkTree.insert so far; the k-th has index k - 1
    found,       \* the query and the result of findWithinDistance, if it was the last call
    ufPairs,     \* the pairs <<x, y>> given to unionFind.union so far
    fp,          \* the fingerprints a, b, c that HammingDistance is applied to
    hpc,         \* position inside HammingDistance(fp.a, fp.b)
    hxor,        \* HammingDistance's local xor
    hcount,      \* HammingDistance's local count
    hret,        \* the value HammingDistance(fp.a, fp.b) returned
    pairDist,    \* the distances returned for the pairs of a, b, c
    table,       \* the images table: the group_id of the row of each stored image
    tableBefore, \* the table when UpdateGroups was called
    spc,         \* position inside runScan
    files,       \* the images whose file is on disk
    cleaned,     \* the pairs <<image, how>> that runClean removed from disk
    scanner,     \* the Scanner: its workers and whether progressFn is set
    hashResult,  \* what HashImageWithTimeout returns for each discovered path
    scanpc,      \* position inside ScanFolder
    work,        \* the paths in the work channel
    results,     \* ScanFolder's results slice: the paths of its ImageInfos
    resultsMu,   \* the worker holding resultsMu, or NoWorker
    scanned,     \* the atomic counter scanned
    wk,          \* per worker goroutine: its position, path, n and its view of results
    progress,    \* the calls of progressFn: <<scanned, total, current>>
    scanRet,     \* what ScanFolder returned
    taken,       \* for each path, the workers that received it from the work channel
    server,      \* the Server: idleTimeout and the fields guarded by mu, shutdownChan
    checker,     \* the goroutine idleTimeoutChecker: its position and its local idle
    tickerC,     \* whether a tick waits in ticker.C
    conns,       \* per WebSocket client: the position of its handleWebSocket
    httpServer,  \* "listening", or "shutdown" after httpServer.Shutdown
    quiet        \* whether the clients have stopped connecting and requesting

matcherVars == <<mode, req, threshold, items, images, pc, i, uf, tree, groupMap,
                 todo, groupID, groups, run, first>>

treeVars == <<inserted, found>>

ufVars == <<ufPairs>>

hammingVars == <<fp, hpc, hxor, hcount, hret, pairDist>>

storeVars == <<table, tableBefore, spc, files, cleaned>>

scanVars == <<scanner, hashResult, scanpc, work, results, resultsMu, scanned,
              wk, progress, scanRet, taken>>

serveVars == <<server, checker, tickerC, conns, httpServer, quiet>>

\* the variables the matcher does not touch
otherVars == <<treeVars, ufVars, hammingVars, storeVars, scanVars, serveVars>>

\* the variables left alone by the operations on HammingDistance, on the
\* bkTree alone and on the unionFind alone
besidesHamming == <<matcherVars, treeVars, ufVars, storeVars, scanVars,
                    serveVars>>

besidesTree == <<mode, req, threshold, items, images, pc, i, uf, groupMap, todo,
                 groupID, groups, run, first, ufVars, hammingVars, storeVars,
                 scanVars, serveVars>>

besidesUF == <<mode, req, threshold, items, images, pc, i, tree, groupMap, todo,
               groupID, groups, run, first, treeVars, hammingVars, storeVars,
               scanVars, serveVars>>

besidesScan == <<matcherVars, treeVars, ufVars, hammingVars, storeVars,
                 serveVars>>

besidesServe == <<matcherVars, treeVars, ufVars, hammingVars, storeVars,
                  scanVars>>

vars == <<matcherVars, otherVars>>

----------------------------------------------------------------------------
(* Bounds and input pools *)

MaxItems == 4        \* longest input slice of the matcher specification
MaxKeepItems == 3    \* longest input slice of the tie-break specification
MaxIDItems == 4      \* most images where the IDs of two calls are compared
MaxQueryItems == 4   \* longest input slice where the queries are observed
MaxRerunItems == 3   \* longest input slice of the two-run specification
MaxInserts == 4      \* most calls of bkTree.insert
MaxDeepInserts == 5  \* most calls of bkTree.insert where only inserts are made
UFSize == 4          \* the n of newUnionFind(n)
MaxUnions == 3       \* most distinct pairs given to unionFind.union
MaxStoreItems == 3   \* most images of the scan that is stored and cleaned
MaxPaths == 3        \* most image files the walk of ScanFolder discovers
MaxWorkers == 2      \* most worker goroutines of a Scanner
MaxLivePaths == 2    \* most image files, where termination is checked
MaxLiveWorkers == 2  \* most worker goroutines, where termination is checked
MaxClients == 2      \* most WebSocket clients of the web server
MaxIdleTimeout == 2  \* longest idle timeout of the web server, in time units

HashBits == 64       \* width of ImageInfo.Hash (uint64)
DefaultThreshold == 10

Range(s) == {s[k] : k \in DOMAIN s}

Min(S) == CHOOSE x \in S : \A y \in S : x <= y

\* 0x0, 0x1, 0x3, 0x7FF and 0xFFE0000000000000
HashPool == { {}, {0}, {0, 1}, 0..10, (HashBits - 11)..(HashBits - 1) }

\* the thresholds a caller passes: below the range, inside it, above it
ThresholdPool == { -5, 0, 1, 2, 10, 64, 200 }

\* the hashes and the radii of the operations on the bkTree alone: 0x0,
\* 0x1, 0x2 and 0x3, which are 0 to 2 bits apart
TreeHashPool == { {}, {0}, {1}, {0, 1} }

RadiusPool == { 0, 1, 2, HashBits }

\* the fingerprints HammingDistance is applied to: 0x0, 0x1, 0x3,
\* 0x8000000000000000, 0x8000000000000001, 0x5555555555555555,
\* 0xAAAAAAAAAAAAAAAA and 0xFFFFFFFFFFFFFFFF
HammingPool ==
    { {}, {0}, {0, 1}, {HashBits - 1}, {0, HashBits - 1},
      {k \in 0..(HashBits - 1) : k % 2 = 0},
      {k \in 0..(HashBits - 1) : k % 2 = 1},
      0..(HashBits - 1) }

\* "" is the FileHash of an image whose SHA256 was not computed
FileHashPool == { "", "x", "y" }

\* Paths are strings, compared byte-wise.  A path is the sequence of its
\* bytes: "ab", "b", "a", "aa", "ba" with a = 1 and b = 2.
PathOf(p) ==
    CASE p = 1 -> <<1, 2>>
      [] p = 2 -> <<2>>
      [] p = 3 -> <<1>>
      [] p = 4 -> <<1, 1>>
      [] OTHER -> <<2, 1>> \o [k \in 1..(p - 5) |-> 1]

----------------------------------------------------------------------------
(* hash.HammingDistance *)

\* x ^ y and x & y on uint64
Xor(x, y) == (x \ y) \cup (y \ x)

And(x, y) == x \cap y

\* x - 1 on uint64: the lowest 1 bit becomes 0 and the 0 bits below it become
\* 1; 0 - 1 wraps around to 0xFFFFFFFFFFFFFFFF
Minus1(x) ==
    IF x = {} THEN 0..(HashBits - 1)
    ELSE LET low == Min(x)
         IN  IF low = 0 THEN x \ {0} ELSE (x \ {low}) \cup 0..(low - 1)

\* "xor >>= 1" in place of "xor &= xor - 1"
clearLowestBitShift(x) == {k - 1 : k \in x \ {0}}

\* xor &= xor - 1
clearLowestBit(x) == And(x, Minus1(x))

\* for xor != 0 { count++; xor &= xor - 1 }
RECURSIVE popLoop(_, _)
popLoop(xor, count) ==
    IF xor = {} THEN count
    ELSE popLoop(clearLowestBit(xor), count + 1)

\* HammingDistance with hash1 | hash2
HammingDistanceOr(hash1, hash2) ==
    LET xor == hash1 \cup hash2
    IN  popLoop(xor, 0)

HammingDistance(hash1, hash2) ==
    LET xor == Xor(hash1, hash2)
    IN  popLoop(xor, 0)

\* The same function, one statement at a time, applied to fp.a and fp.b
HammingCall ==
    /\ hpc = "call"
    /\ hxor' = Xor(fp.a, fp.b)
    /\ hcount' = 0
    /\ hpc' = "loop"
    /\ UNCHANGED <<fp, hret, pairDist>>
    /\ UNCHANGED besidesHamming

HammingLoop ==
    /\ hpc = "loop"
    /\ hxor # {}
    /\ hcount' = hcount + 1
    /\ hxor' = clearLowestBit(hxor)
    /\ UNCHANGED <<fp, hpc, hret, pairDist>>
    /\ UNCHANGED besidesHamming

HammingReturn ==
    /\ hpc = "loop"
    /\ hxor = {}
    /\ hret' = hcount
    /\ hpc' = "returned"
    /\ UNCHANGED <<fp, hxor, hcount, pairDist>>
    /\ UNCHANGED besidesHamming

\* HammingDistance applied to every pair of the three fingerprints
HammingPairs ==
    /\ hpc = "returned"
    /\ pairDist' = [xy \in {"a", "b", "c"} \X {"a", "b", "c"} |->
                       HammingDistance(fp[xy[1]], fp[xy[2]])]
    /\ hpc' = "measured"
    /\ UNCHANGED <<fp, hxor, hcount, hret>>
    /\ UNCHANGED besidesHamming

----------------------------------------------------------------------------
(* NewPerceptualMatcher / NewGrouper *)

\* NewPerceptualMatcher keeping a negative threshold
NewPerceptualMatcherAsGiven(t) == t

NewPerceptualMatcher(t) ==
    IF t < 0 THEN DefaultThreshold ELSE t

NewGrouper(t) ==
    IF t < 0 THEN DefaultThreshold ELSE t

GetThreshold == threshold

----------------------------------------------------------------------------
(* unionFind: indices are 0..n-1 *)

newUnionFind(n) ==
    [parent |-> [x \in 0..(n - 1) |-> x], rank |-> [x \in 0..(n - 1) |-> 0]]

\* find returns the root and, by path compression, a changed parent array
RECURSIVE find(_, _)
find(u, x) ==
    IF u.parent[x] # x
    THEN LET r == find(u, u.parent[x])
         IN  [uf   |-> [r.uf EXCEPT !.parent[x] = r.root],
              root |-> r.root]
    ELSE [uf |-> u, root |-> x]

\* union linking y under x without finding their roots
unionNoFind(u, x, y) ==
    IF x = y THEN u ELSE [u EXCEPT !.parent[y] = x]

\* union without the return on px == py
unionNoReturn(u, x, y) ==
    LET fx == find(u, x)
        fy == find(fx.uf, y)
        u2 == fy.uf
        px0 == fx.root
        py0 == fy.root
        swap == u2.rank[px0] < u2.rank[py0]
        px == IF swap THEN py0 ELSE px0
        py == IF swap THEN px0 ELSE py0
        u3 == [u2 EXCEPT !.parent[py] = px]
    IN  IF u3.rank[px] = u3.rank[py]
        THEN [u3 EXCEPT !.rank[px] = @ + 1]
        ELSE u3

\* union without the swap of "Union by rank"
unionNoSwap(u, x, y) ==
    LET fx == find(u, x)
        fy == find(fx.uf, y)
        u2 == fy.uf
        px == fx.root
        py == fy.root
    IN  IF px = py THEN u2
        ELSE LET u3 == [u2 EXCEPT !.parent[py] = px]
             IN  IF u3.rank[px] = u3.rank[py]
                 THEN [u3 EXCEPT !.rank[px] = @ + 1]
                 ELSE u3

union(u, x, y) ==
    LET fx == find(u, x)
        fy == find(fx.uf, y)
        u2 == fy.uf
        px0 == fx.root
        py0 == fy.root
    IN  IF px0 = py0 THEN u2
        ELSE LET swap == u2.rank[px0] < u2.rank[py0]
                 px == IF swap THEN py0 ELSE px0
                 py == IF swap THEN px0 ELSE py0
                 u3 == [u2 EXCEPT !.parent[py] = px]
             IN  IF u3.rank[px] = u3.rank[py]
                 THEN [u3 EXCEPT !.rank[px] = @ + 1]
                 ELSE u3

\* uf.union(x, js[1]); uf.union(x, js[2]); ...
RECURSIVE unionAll(_, _, _)
unionAll(u, x, js) ==
    IF js = <<>> THEN u
    ELSE unionAll(union(u, x, Head(js)), x, Tail(js))

\* The unionFind on its own: any union and any find, in any order
UFUnion ==
    /\ \E x, y \in DOMAIN uf.parent :
          /\ Cardinality(ufPairs \cup {<<x, y>>}) <= MaxUnions
          /\ uf' = union(uf, x, y)
          /\ ufPairs' = ufPairs \cup {<<x, y>>}
    /\ UNCHANGED besidesUF

UFFind ==
    /\ \E x \in DOMAIN uf.parent : uf' = find(uf, x).uf
    /\ UNCHANGED ufPairs
    /\ UNCHANGED besidesUF

----------------------------------------------------------------------------
(* bkTree: tree[k] is a bkNode, children maps a distance to a node number *)

EmptyMap == [k \in {} |-> 0]

newBKTree == <<>>

bkNode(hash, index) == [hash |-> hash, index |-> index, children |-> EmptyMap]

\* insertAt hanging the node on current, over a child at the same distance
insertAtReplace(t, current, node) ==
    LET dist == HammingDistance(node.hash, t[current].hash)
    IN  [Append(t, node) EXCEPT
            ![current].children =
                [d \in (DOMAIN @) \cup {dist} |->
                    IF d = dist THEN Len(t) + 1 ELSE @[d]]]

\* insertAt labelling the new edge with the distance to the root
RECURSIVE insertAtRootLabel(_, _, _)
insertAtRootLabel(t, current, node) ==
    LET dist == HammingDistance(node.hash, t[current].hash)
        label == HammingDistance(node.hash, t[1].hash)
    IN  IF dist \in DOMAIN t[current].children
        THEN insertAtRootLabel(t, t[current].children[dist], node)
        ELSE [Append(t, node) EXCEPT
                 ![current].children =
                     [d \in (DOMAIN @) \cup {label} |->
                         IF d = label THEN Len(t) + 1 ELSE @[d]]]

\* insertAt dropping a hash that is already in the tree
RECURSIVE insertAtSkipEqual(_, _, _)
insertAtSkipEqual(t, current, node) ==
    LET dist == HammingDistance(node.hash, t[current].hash)
    IN  IF dist = 0 THEN t
        ELSE IF dist \in DOMAIN t[current].children
        THEN insertAtSkipEqual(t, t[current].children[dist], node)
        ELSE [Append(t, node) EXCEPT
                 ![current].children =
                     [d \in (DOMAIN @) \cup {dist} |->
                         IF d = dist THEN Len(t) + 1 ELSE @[d]]]

RECURSIVE insertAt(_, _, _)
insertAt(t, current, node) ==
    LET dist == HammingDistance(node.hash, t[current].hash)
    IN  IF dist \in DOMAIN t[current].children
        THEN insertAt(t, t[current].children[dist], node)
        ELSE [Append(t, node) EXCEPT
                 ![current].children =
                     [d \in (DOMAIN @) \cup {dist} |->
                         IF d = dist THEN Len(t) + 1 ELSE @[d]]]

insert(t, hash, index) ==
    IF t = <<>> THEN <<bkNode(hash, index)>>
    ELSE insertAt(t, 1, bkNode(hash, index))

\* all sequences made of the elements of S, each once
RECURSIVE Orderings(_)
Orderings(S) ==
    IF S = {} THEN { <<>> }
    ELSE UNION { { <<x>> \o t : t \in Orderings(S \ {x}) } : x \in S }

\* the concatenations of one sequence out of each set of ss, in order
RECURSIVE concatChoices(_)
concatChoices(ss) ==
    IF ss = <<>> THEN { <<>> }
    ELSE {a \o b : a \in Head(ss), b \in concatChoices(Tail(ss))}

\* searchNode with the upper end of the band cut to dist
RECURSIVE searchNodeNarrow(_, _, _, _)
searchNodeNarrow(t, node, hash, thr) ==
    LET dist == HammingDistance(hash, t[node].hash)
        own == IF dist <= thr THEN <<t[node].index>> ELSE <<>>
        minDist == IF dist - thr < 0 THEN 0 ELSE dist - thr
        maxDist == dist
        visited == {c \in DOMAIN t[node].children : c >= minDist /\ c <= maxDist}
    IN  UNION { { own \o rest :
                    rest \in concatChoices(
                        [k \in 1..Len(ord) |->
                            searchNodeNarrow(t, t[node].children[ord[k]], hash, thr)]) } :
                ord \in Orderings(visited) }

\* The results searchNode can append: ranging over node.children visits the
\* children in any order, so the result is one of a set of sequences.
RECURSIVE searchNode(_, _, _, _)
searchNode(t, node, hash, thr) ==
    LET dist == HammingDistance(hash, t[node].hash)
        own == IF dist <= thr THEN <<t[node].index>> ELSE <<>>
        minDist == IF dist - thr < 0 THEN 0 ELSE dist - thr
        maxDist == dist + thr
        visited == {c \in DOMAIN t[node].children : c >= minDist /\ c <= maxDist}
    IN  UNION { { own \o rest :
                    rest \in concatChoices(
                        [k \in 1..Len(ord) |->
                            searchNode(t, t[node].children[ord[k]], hash, thr)]) } :
                ord \in Orderings(visited) }

findWithinDistance(t, hash, thr) ==
    IF t = <<>> THEN { <<>> }
    ELSE searchNode(t, 1, hash, thr)

RECURSIVE countNodes(_, _)
countNodes(t, node) ==
    LET ch == t[node].children
        RECURSIVE sum(_)
        sum(D) == IF D = {} THEN 0
                  ELSE LET d == CHOOSE d \in D : TRUE
                       IN  countNodes(t, ch[d]) + sum(D \ {d})
    IN  1 + sum(DOMAIN ch)

size(t) == IF t = <<>> THEN 0 ELSE countNodes(t, 1)

\* found when the last call was not a query
NoQuery == [hash |-> {}, threshold |-> -1, results |-> <<>>]

\* The bkTree on its own: insert(hash, index) with the next free index
TreeInsert ==
    /\ Len(inserted) < MaxInserts
    /\ \E hash \in TreeHashPool :
          /\ tree' = insert(tree, hash, Len(inserted))
          /\ inserted' = Append(inserted, hash)
    /\ found' = NoQuery
    /\ UNCHANGED besidesTree

\* insert(hash, index) with hashes that are also far apart, for deeper trees
TreeInsertDeep ==
    /\ Len(inserted) < MaxDeepInserts
    /\ \E hash \in HashPool \cup TreeHashPool :
          /\ tree' = insert(tree, hash, Len(inserted))
          /\ inserted' = Append(inserted, hash)
    /\ found' = NoQuery
    /\ UNCHANGED besidesTree

\* findWithinDistance(hash, threshold), the results in any order a walk
\* over the children maps produces
TreeFind ==
    /\ \E hash \in TreeHashPool, thr \in RadiusPool :
          \E res \in findWithinDistance(tree, hash, thr) :
              found' = [hash |-> hash, threshold |-> thr, results |-> res]
    /\ UNCHANGED <<tree, inserted>>
    /\ UNCHANGED besidesTree

----------------------------------------------------------------------------
(* sort.Slice, the comparator and selectKeepAndRemove *)

\* sort.Slice is not stable: it returns some permutation of s in which no
\* element is less than an element before it.  less[<<x, y>>] is the value
\* of the less function on the elements x and y.
sortSlice(s, less) ==
    {t \in Orderings(Range(s)) :
        \A a, b \in 1..Len(s) : a < b => ~less[<<t[b], t[a]>>]}

\* Go's < on strings: byte-wise lexicographic order
RECURSIVE stringLess(_, _)
stringLess(a, b) ==
    IF b = <<>> THEN FALSE
    ELSE IF a = <<>> THEN TRUE
    ELSE IF Head(a) # Head(b) THEN Head(a) < Head(b)
    ELSE stringLess(Tail(a), Tail(b))

\* imageLess preferring the smaller file
imageLessSmallerFile(a, b) ==
    IF a.Score # b.Score THEN a.Score > b.Score
    ELSE IF a.FileSize # b.FileSize THEN a.FileSize < b.FileSize
    ELSE IF a.ModTime # b.ModTime THEN a.ModTime > b.ModTime
    ELSE stringLess(a.Path, b.Path)

\* the less function selectKeepAndRemove passes to sort.Slice
imageLess(a, b) ==
    IF a.Score # b.Score THEN a.Score > b.Score
    ELSE IF a.FileSize # b.FileSize THEN a.FileSize > b.FileSize
    ELSE IF a.ModTime # b.ModTime THEN a.ModTime > b.ModTime
    ELSE stringLess(a.Path, b.Path)

\* selectKeepAndRemove with Remove = sorted[0:]
selectKeepAndRemoveAll(group, its) ==
    IF Len(group.Images) = 0 THEN { [group |-> group, items |-> its] }
    ELSE LET less == [pq \in Range(group.Images) \X Range(group.Images) |->
                         imageLess(its[pq[1]], its[pq[2]])]
         IN  { [group |-> [group EXCEPT !.Keep = sorted[1],
                                        !.Remove = sorted],
                items |-> [p \in DOMAIN its |->
                             IF p \in Range(group.Images)
                             THEN [its[p] EXCEPT !.GroupID = group.ID]
                             ELSE its[p]]] :
               sorted \in sortSlice(group.Images, less) }

\* selectKeepAndRemove assigning the group ID to the Remove images only
selectKeepAndRemoveTagRemoved(group, its) ==
    IF Len(group.Images) = 0 THEN { [group |-> group, items |-> its] }
    ELSE LET less == [pq \in Range(group.Images) \X Range(group.Images) |->
                         imageLess(its[pq[1]], its[pq[2]])]
         IN  { [group |-> [group EXCEPT !.Keep = sorted[1],
                                        !.Remove = Tail(sorted)],
                items |-> [p \in DOMAIN its |->
                             IF p \in Range(Tail(sorted))
                             THEN [its[p] EXCEPT !.GroupID = group.ID]
                             ELSE its[p]]] :
               sorted \in sortSlice(group.Images, less) }

\* selectKeepAndRemove with Remove = the Images other than Keep, as they stand
selectKeepAndRemoveMemberOrder(group, its) ==
    IF Len(group.Images) = 0 THEN { [group |-> group, items |-> its] }
    ELSE LET less == [pq \in Range(group.Images) \X Range(group.Images) |->
                         imageLess(its[pq[1]], its[pq[2]])]
             NotFirst(sorted) == LET Other(p) == p # sorted[1]
                                 IN  SelectSeq(group.Images, Other)
         IN  { [group |-> [group EXCEPT !.Keep = sorted[1],
                                        !.Remove = NotFirst(sorted)],
                items |-> [p \in DOMAIN its |->
                             IF p \in Range(group.Images)
                             THEN [its[p] EXCEPT !.GroupID = group.ID]
                             ELSE its[p]]] :
               sorted \in sortSlice(group.Images, less) }

\* The outcomes of selectKeepAndRemove(group): the group with Keep and Remove
\* set, and the items with GroupID assigned.
selectKeepAndRemove(group, its) ==
    IF Len(group.Images) = 0 THEN { [group |-> group, items |-> its] }
    ELSE LET less == [pq \in Range(group.Images) \X Range(group.Images) |->
                         imageLess(its[pq[1]], its[pq[2]])]
         IN  { [group |-> [group EXCEPT !.Keep = sorted[1],
                                        !.Remove = Tail(sorted)],
                items |-> [p \in DOMAIN its |->
                             IF p \in Range(group.Images)
                             THEN [its[p] EXCEPT !.GroupID = group.ID]
                             ELSE its[p]]] :
               sorted \in sortSlice(group.Images, less) }

NoImage == 0    \* a nil *ImageInfo

DuplicateGroup(id, imgs) ==
    [ID |-> id, Images |-> imgs, Keep |-> NoImage, Remove |-> <<>>]

groupIDLess(gs) == [gh \in Range(gs) \X Range(gs) |-> gh[1].ID < gh[2].ID]

----------------------------------------------------------------------------
(* The brute-force Grouper.FindGroups of package internal *)

\* the unions of the double loop, from pair (a, b) on
RECURSIVE grouperPairs(_, _, _, _, _, _)
grouperPairs(u, imgs, its, thr, a, b) ==
    LET n == Len(imgs)
    IN  IF a >= n THEN u
        ELSE IF b >= n THEN grouperPairs(u, imgs, its, thr, a + 1, a + 2)
        ELSE LET dist == HammingDistance(its[imgs[a + 1]].Hash, its[imgs[b + 1]].Hash)
                 u2 == IF dist <= thr THEN union(u, a, b) ELSE u
             IN  grouperPairs(u2, imgs, its, thr, a, b + 1)

\* groupMap[root] = append(groupMap[root], img) for index k on
RECURSIVE collectGroups(_, _, _, _)
collectGroups(u, imgs, gm, k) ==
    IF k >= Len(imgs) THEN [uf |-> u, groupMap |-> gm]
    ELSE LET f == find(u, k)
             old == IF f.root \in DOMAIN gm THEN gm[f.root] ELSE <<>>
             gm2 == [r \in (DOMAIN gm) \cup {f.root} |->
                        IF r = f.root THEN Append(old, imgs[k + 1]) ELSE gm[r]]
         IN  collectGroups(f.uf, imgs, gm2, k + 1)

\* the member sets of the groups Grouper.FindGroups returns
GrouperFindGroups(imgs, its, thr) ==
    IF Len(imgs) < 2 THEN {}
    ELSE LET u == grouperPairs(newUnionFind(Len(imgs)), imgs, its, thr, 0, 1)
             gm == collectGroups(u, imgs, EmptyMap, 0).groupMap
         IN  {Range(gm[r]) : r \in {k \in DOMAIN gm : Len(gm[k]) >= 2}}

----------------------------------------------------------------------------
(* PerceptualMatcher.FindGroups *)

n == Len(images)

\* FindGroups returning early on an empty input only
FindGroupsEmptyOnly ==
    /\ mode = "perceptual"
    /\ pc = "ready"
    /\ IF n < 1
       THEN /\ groups' = <<>>
            /\ pc' = "done"
            /\ UNCHANGED <<uf, tree, i>>
       ELSE /\ uf' = newUnionFind(n)
            /\ tree' = newBKTree
            /\ i' = 0
            /\ pc' = "loop"
            /\ UNCHANGED groups
    /\ UNCHANGED otherVars
    /\ UNCHANGED <<mode, req, threshold, items, images, groupMap, todo, groupID,
                   run, first>>

\* n < 2: return nil; else uf := newUnionFind(n), tree := newBKTree(...)
FindGroups ==
    /\ mode = "perceptual"
    /\ pc = "ready"
    /\ IF n < 2
       THEN /\ groups' = <<>>
            /\ pc' = "done"
            /\ UNCHANGED <<uf, tree, i>>
       ELSE /\ uf' = newUnionFind(n)
            /\ tree' = newBKTree
            /\ i' = 0
            /\ pc' = "loop"
            /\ UNCHANGED groups
    /\ UNCHANGED otherVars
    /\ UNCHANGED <<mode, req, threshold, items, images, groupMap, todo, groupID,
                   run, first>>

\* FindNeighbors with uf.union(i, neighbors[0]) only
FindNeighborsFirstOnly ==
    /\ pc = "loop"
    /\ i < n
    /\ LET img == items[images[i + 1]]
       IN  \E neighbors \in findWithinDistance(tree, img.Hash, threshold) :
               /\ uf' = unionAll(uf, i, IF neighbors = <<>> THEN <<>> ELSE <<Head(neighbors)>>)
               /\ tree' = insert(tree, img.Hash, i)
    /\ i' = i + 1
    /\ UNCHANGED otherVars
    /\ UNCHANGED <<mode, req, threshold, items, images, pc, groupMap, todo,
                   groupID, groups, run, first>>

\* one iteration of "for i, img := range images": query, unions, insert
FindNeighbors ==
    /\ pc = "loop"
    /\ i < n
    /\ LET img == items[images[i + 1]]
       IN  \E neighbors \in findWithinDistance(tree, img.Hash, threshold) :
               /\ uf' = unionAll(uf, i, neighbors)
               /\ tree' = insert(tree, img.Hash, i)
    /\ i' = i + 1
    /\ UNCHANGED otherVars
    /\ UNCHANGED <<mode, req, threshold, items, images, pc, groupMap, todo,
                   groupID, groups, run, first>>

\* The same iteration in its two parts.  The query on a tree that already
\* holds item i:
QueryNeighborsAfterInsert ==
    /\ pc = "loop"
    /\ i < n
    /\ LET img == items[images[i + 1]]
       IN  \E res \in findWithinDistance(insert(tree, img.Hash, i), img.Hash, threshold) :
               found' = [hash |-> img.Hash, threshold |-> threshold, results |-> res]
    /\ pc' = "unions"
    /\ UNCHANGED <<inserted, ufVars, hammingVars, storeVars, scanVars, serveVars>>
    /\ UNCHANGED <<mode, req, threshold, items, images, i, uf, tree, groupMap,
                   todo, groupID, groups, run, first>>

\* neighbors := tree.findWithinDistance(img.Hash, m.threshold)
QueryNeighbors ==
    /\ pc = "loop"
    /\ i < n
    /\ LET img == items[images[i + 1]]
       IN  \E res \in findWithinDistance(tree, img.Hash, threshold) :
               found' = [hash |-> img.Hash, threshold |-> threshold, results |-> res]
    /\ pc' = "unions"
    /\ UNCHANGED <<inserted, ufVars, hammingVars, storeVars, scanVars, serveVars>>
    /\ UNCHANGED <<mode, req, threshold, items, images, i, uf, tree, groupMap,
                   todo, groupID, groups, run, first>>

\* for _, j := range neighbors { uf.union(i, j) }; tree.insert(img.Hash, i)
UnionAndInsert ==
    /\ pc = "unions"
    /\ uf' = unionAll(uf, i, found.results)
    /\ tree' = insert(tree, items[images[i + 1]].Hash, i)
    /\ i' = i + 1
    /\ pc' = "loop"
    /\ UNCHANGED otherVars
    /\ UNCHANGED <<mode, req, threshold, items, images, groupMap, todo,
                   groupID, groups, run, first>>

\* "Collect groups", then the entry of buildGroups(groupMap)
CollectGroups ==
    /\ pc = "loop"
    /\ i = n
    /\ LET c == collectGroups(uf, images, EmptyMap, 0)
       IN  /\ uf' = c.uf
           /\ groupMap' = c.groupMap
           /\ todo' = DOMAIN c.groupMap
    /\ groups' = <<>>
    /\ groupID' = 1
    /\ pc' = "build"
    /\ UNCHANGED otherVars
    /\ UNCHANGED <<mode, req, threshold, items, images, i, tree, run, first>>

----------------------------------------------------------------------------
(* ExactMatcher.FindGroups *)

\* exactHashMap without the FileHash != "" test
RECURSIVE exactHashMapAll(_, _, _, _)
exactHashMapAll(imgs, its, hm, k) ==
    IF k >= Len(imgs) THEN hm
    ELSE LET h == its[imgs[k + 1]].FileHash
             old == IF h \in DOMAIN hm THEN hm[h] ELSE <<>>
             hm2 == [x \in (DOMAIN hm) \cup {h} |->
                        IF x = h THEN Append(old, imgs[k + 1]) ELSE hm[x]]
         IN  exactHashMapAll(imgs, its, hm2, k + 1)

\* hashMap[img.FileHash] = append(hashMap[img.FileHash], img) from index k on
RECURSIVE exactHashMap(_, _, _, _)
exactHashMap(imgs, its, hm, k) ==
    IF k >= Len(imgs) THEN hm
    ELSE LET h == its[imgs[k + 1]].FileHash
             old == IF h \in DOMAIN hm THEN hm[h] ELSE <<>>
             hm2 == IF h # ""
                    THEN [x \in (DOMAIN hm) \cup {h} |->
                             IF x = h THEN Append(old, imgs[k + 1]) ELSE hm[x]]
                    ELSE hm
         IN  exactHashMap(imgs, its, hm2, k + 1)

\* the range over hashMap numbers the buckets in the order it visits them
ExactFindGroups ==
    /\ mode = "exact"
    /\ pc = "ready"
    /\ IF n < 2
       THEN /\ groups' = <<>>
            /\ pc' = "done"
            /\ UNCHANGED <<groupMap, todo, groupID>>
       ELSE LET hashMap == exactHashMap(images, items, EmptyMap, 0)
            IN  \E ord \in Orderings(DOMAIN hashMap) :
                    /\ groupMap' = [idx \in 0..(Len(ord) - 1) |-> hashMap[ord[idx + 1]]]
                    /\ todo' = 0..(Len(ord) - 1)
                    /\ groups' = <<>>
                    /\ groupID' = 1
                    /\ pc' = "build"
    /\ UNCHANGED otherVars
    /\ UNCHANGED <<mode, req, threshold, items, images, i, uf, tree, run, first>>

----------------------------------------------------------------------------
(* buildGroups *)

\* BuildGroup with break in place of continue
BuildGroupBreak ==
    /\ pc = "build"
    /\ \E k \in todo :
          IF Len(groupMap[k]) < 2
          THEN /\ todo' = {}
               /\ UNCHANGED <<groups, groupID, items>>
          ELSE /\ todo' = todo \ {k}
               /\ \E r \in selectKeepAndRemove(DuplicateGroup(groupID, groupMap[k]), items) :
                      /\ groups' = Append(groups, r.group)
                      /\ items' = r.items
                      /\ groupID' = groupID + 1
    /\ UNCHANGED otherVars
    /\ UNCHANGED <<mode, req, threshold, images, pc, i, uf, tree, groupMap,
                   run, first>>

\* BuildGroup skipping only the empty groups
BuildGroupNonEmpty ==
    /\ pc = "build"
    /\ \E k \in todo :
          /\ todo' = todo \ {k}
          /\ IF Len(groupMap[k]) < 1
             THEN UNCHANGED <<groups, groupID, items>>
             ELSE \E r \in selectKeepAndRemove(DuplicateGroup(groupID, groupMap[k]), items) :
                      /\ groups' = Append(groups, r.group)
                      /\ items' = r.items
                      /\ groupID' = groupID + 1
    /\ UNCHANGED otherVars
    /\ UNCHANGED <<mode, req, threshold, images, pc, i, uf, tree, groupMap,
                   run, first>>

\* BuildGroup counting the skipped groups too
BuildGroupCountSkipped ==
    /\ pc = "build"
    /\ \E k \in todo :
          /\ todo' = todo \ {k}
          /\ groupID' = groupID + 1
          /\ IF Len(groupMap[k]) < 2
             THEN UNCHANGED <<groups, items>>
             ELSE \E r \in selectKeepAndRemove(DuplicateGroup(groupID, groupMap[k]), items) :
                      /\ groups' = Append(groups, r.group)
                      /\ items' = r.items
    /\ UNCHANGED otherVars
    /\ UNCHANGED <<mode, req, threshold, images, pc, i, uf, tree, groupMap,
                   run, first>>

\* one iteration of "for _, imgs := range groupMap", on any unvisited key
BuildGroup ==
    /\ pc = "build"
    /\ \E k \in todo :
          /\ todo' = todo \ {k}
          /\ IF Len(groupMap[k]) < 2
             THEN UNCHANGED <<groups, groupID, items>>
             ELSE \E r \in selectKeepAndRemove(DuplicateGroup(groupID, groupMap[k]), items) :
                      /\ groups' = Append(groups, r.group)
                      /\ items' = r.items
                      /\ groupID' = groupID + 1
    /\ UNCHANGED otherVars
    /\ UNCHANGED <<mode, req, threshold, images, pc, i, uf, tree, groupMap,
                   run, first>>

\* the loop is over: sort the groups by ID and return them
SortGroups ==
    /\ pc = "build"
    /\ todo = {}
    /\ groups' \in sortSlice(groups, groupIDLess(groups))
    /\ pc' = "done"
    /\ UNCHANGED otherVars
    /\ UNCHANGED <<mode, req, threshold, items, images, i, uf, tree, groupMap,
                   todo, groupID, run, first>>

----------------------------------------------------------------------------
(* A second call of FindGroups on the same items, in any order *)

SecondCall ==
    /\ pc = "done"
    /\ run = 1
    /\ run' = 2
    /\ first' = [images |-> images, groups |-> groups]
    /\ images' \in Orderings(Range(images))
    /\ pc' = "ready"
    /\ i' = 0
    /\ uf' = newUnionFind(0)
    /\ tree' = newBKTree
    /\ groupMap' = EmptyMap
    /\ todo' = {}
    /\ groupID' = 0
    /\ groups' = <<>>
    /\ UNCHANGED otherVars
    /\ UNCHANGED <<mode, req, threshold, items>>

----------------------------------------------------------------------------
(* Initial states *)

\* Score of the image behind pointer p where the specification fixes it:
\* pointers 2 and 3 tie on the highest score
----------------------------------------------------------------------------
(* Grouper.FindGroups as runScan calls it.  The pair loop and the collecting
   of the groups are one step; the loop that builds the groups and the final
   sort are the same code as buildGroups. *)

GrouperFindPairs ==
    /\ mode = "grouper"
    /\ pc = "ready"
    /\ IF n < 2
       THEN /\ groups' = <<>>
            /\ pc' = "done"
            /\ UNCHANGED <<uf, groupMap, todo, groupID>>
       ELSE LET u == grouperPairs(newUnionFind(n), images, items, threshold, 0, 1)
                c == collectGroups(u, images, EmptyMap, 0)
            IN  /\ uf' = c.uf
                /\ groupMap' = c.groupMap
                /\ todo' = DOMAIN c.groupMap
                /\ groupID' = 1
                /\ groups' = <<>>
                /\ pc' = "build"
    /\ UNCHANGED otherVars
    /\ UNCHANGED <<mode, req, threshold, items, images, i, tree, run, first>>

----------------------------------------------------------------------------
(* Storage.  A row of the images table is named by the pointer of its image
   (path is UNIQUE); table gives its group_id and items its other columns. *)

\* SaveImages: INSERT OR REPLACE of every image, with its GroupID
saveImages(tbl, imgs, its) ==
    [q \in (DOMAIN tbl) \cup Range(imgs) |->
        IF q \in Range(imgs) THEN its[q].GroupID ELSE tbl[q]]

\* UPDATE images SET group_id = 0
resetGroups(tbl) == [q \in DOMAIN tbl |-> 0]

\* UPDATE images SET group_id = ? WHERE path = ?
setGroup(tbl, its, id, path) ==
    [q \in DOMAIN tbl |-> IF its[q].Path = path THEN id ELSE tbl[q]]

\* the arguments of stmt.Exec, in the order of the two range loops
RECURSIVE groupStatements(_, _)
groupStatements(gs, its) ==
    IF gs = <<>> THEN <<>>
    ELSE [k \in 1..Len(Head(gs).Images) |->
             [id |-> Head(gs).ID, path |-> its[Head(gs).Images[k]].Path]]
         \o groupStatements(Tail(gs), its)

RECURSIVE execAll(_, _, _)
execAll(tbl, its, sts) ==
    IF sts = <<>> THEN tbl
    ELSE execAll(setGroup(tbl, its, Head(sts).id, Head(sts).path), its, Tail(sts))

\* the table after UpdateGroups(gs) committed
updateGroupsCommitted(tbl, its, gs) ==
    execAll(resetGroups(tbl), its, groupStatements(gs, its))

\* updateGroupsFailed without a transaction: the statements executed stay
updateGroupsFailedNoTx(tbl, its, gs, k) ==
    execAll(resetGroups(tbl), its, SubSeq(groupStatements(gs, its), 1, k))

\* the table after UpdateGroups(gs) failed once the reset and k updates were
\* executed: the deferred tx.Rollback() undoes them
updateGroupsFailed(tbl, its, gs, k) == tbl

\* GetImagesByGroupID: the rows of the group, ORDER BY score DESC; rows of
\* equal score come in any order
getImagesByGroupID(tbl, its, id) ==
    LET rows == {q \in DOMAIN tbl : tbl[q] = id}
    IN  {t \in Orderings(rows) :
            \A a, b \in 1..Len(t) : a < b => its[t[a]].Score >= its[t[b]].Score}

\* SELECT DISTINCT group_id FROM images WHERE group_id > 0 ORDER BY group_id
groupIDsOf(tbl) ==
    LET ids == {tbl[q] : q \in DOMAIN tbl} \ {0}
    IN  CHOOSE t \in Orderings(ids) : \A a, b \in 1..Len(t) : a < b => t[a] < t[b]

\* the groups GetDuplicateGroups builds for the IDs ids
RECURSIVE buildStored(_, _, _)
buildStored(tbl, its, ids) ==
    IF ids = <<>> THEN { <<>> }
    ELSE LET rest == buildStored(tbl, its, Tail(ids))
             lists == getImagesByGroupID(tbl, its, Head(ids))
         IN  UNION { IF Len(imgs) < 2 THEN rest
                     ELSE { <<[ID |-> Head(ids), Images |-> imgs,
                               Keep |-> imgs[1], Remove |-> Tail(imgs)]>> \o r :
                            r \in rest } :
                     imgs \in lists }

GetDuplicateGroups(tbl, its) == buildStored(tbl, its, groupIDsOf(tbl))

\* DeleteImage of every image of P
deleteImages(tbl, P) == [q \in (DOMAIN tbl) \ P |-> tbl[q]]

----------------------------------------------------------------------------
(* runScan after ScanFolder, and runClean *)

\* SaveImages, then the call of Grouper.FindGroups
RunScanSave ==
    /\ spc = "scan"
    /\ \/ /\ table' = saveImages(table, images, items)
          /\ spc' = "group"
          /\ pc' = "ready"
       \/ /\ spc' = "save failed"
          /\ UNCHANGED <<table, pc>>
    /\ UNCHANGED <<tableBefore, files, cleaned>>
    /\ UNCHANGED <<mode, req, threshold, items, images, i, uf, tree, groupMap,
                   todo, groupID, groups, run, first>>
    /\ UNCHANGED <<treeVars, ufVars, hammingVars, scanVars, serveVars>>

\* store.UpdateGroups(groups): it commits, or a statement fails
UpdateGroups ==
    /\ spc = "group"
    /\ pc = "done"
    /\ tableBefore' = table
    /\ \/ /\ table' = updateGroupsCommitted(table, items, groups)
          /\ spc' = "scanned"
       \/ /\ \E k \in 0..Len(groupStatements(groups, items)) :
                 table' = updateGroupsFailed(table, items, groups, k)
          /\ spc' = "update failed"
    /\ UNCHANGED <<files, cleaned>>
    /\ UNCHANGED <<matcherVars, treeVars, ufVars, hammingVars, scanVars,
                   serveVars>>

\* the values of --group: not given, or some IDs
GroupFlagPool == SUBSET {1, 2}

\* runClean, whole, for any flags, any answer to the confirmation and any
\* set of files that cannot be processed
runClean ==
    /\ spc = "scanned"
    /\ \E gs \in GetDuplicateGroups(table, items), groupIDs \in GroupFlagPool,
          how \in {"trash", "permanent", "move-to"}, dryRun \in BOOLEAN,
          confirmed \in BOOLEAN :
          LET Selected(g) == g.ID \in groupIDs
              filtered == IF groupIDs = {} THEN gs ELSE SelectSeq(gs, Selected)
              toRemove == {q \in files :
                             \E k \in DOMAIN filtered : q \in Range(filtered[k].Remove)}
          IN  IF toRemove = {} \/ dryRun \/ ~confirmed
              THEN UNCHANGED <<table, files, cleaned>>
              ELSE \E failed \in SUBSET toRemove :
                      LET processed == toRemove \ failed
                      IN  /\ files' = files \ processed
                          /\ cleaned' = cleaned \cup (processed \X {how})
                          /\ table' = deleteImages(table, processed)
    /\ UNCHANGED <<tableBefore, spc>>
    /\ UNCHANGED <<matcherVars, treeVars, ufVars, hammingVars, scanVars,
                   serveVars>>

----------------------------------------------------------------------------
(* Scanner.ScanFolder.  The discovered paths are 1..total; hashResult[path]
   is the outcome of HashImageWithTimeout on it; an ImageInfo is named by
   its path. *)

NoWorker == 0

total == Len(hashResult)

\* the walk is over: return at once, or fill and close the work channel and
\* start the workers
ScanFolder ==
    /\ scanpc = "walk"
    /\ IF total = 0
       THEN /\ scanRet' = [images |-> <<>>, err |-> "nil"]
            /\ scanpc' = "returned"
            /\ UNCHANGED <<work, wk, taken>>
       ELSE /\ work' = [k \in 1..total |-> k]
            /\ wk' = [w \in 1..scanner.workers |->
                         [pc |-> "range", path |-> 0, n |-> 0, view |-> <<>>]]
            /\ taken' = [k \in 1..total |-> <<>>]
            /\ scanpc' = "wait"
            /\ UNCHANGED scanRet
    /\ UNCHANGED <<scanner, hashResult, results, resultsMu, scanned, progress>>
    /\ UNCHANGED besidesScan

\* WorkerRange on a work channel that was never closed: the receive blocks
\* when the channel is empty
WorkerRangeOpenChannel(w) ==
    /\ scanpc = "wait"
    /\ wk[w].pc = "range"
    /\ work # <<>>
    /\ work' = Tail(work)
    /\ taken' = [taken EXCEPT ![Head(work)] = Append(@, w)]
    /\ wk' = [wk EXCEPT ![w].path = Head(work),
                        ![w].pc = IF hashResult[Head(work)] = "ok"
                                  THEN "lock" ELSE "skip"]
    /\ UNCHANGED <<scanner, hashResult, scanpc, results, resultsMu, scanned,
                   progress, scanRet>>
    /\ UNCHANGED besidesScan

\* "for path := range work" and the call of HashImageWithTimeout: the worker
\* takes the next path, or leaves the loop when the closed channel is empty
WorkerRange(w) ==
    /\ scanpc = "wait"
    /\ wk[w].pc = "range"
    /\ IF work = <<>>
       THEN /\ wk' = [wk EXCEPT ![w].pc = "exit"]
            /\ UNCHANGED <<work, taken>>
       ELSE /\ work' = Tail(work)
            /\ taken' = [taken EXCEPT ![Head(work)] = Append(@, w)]
            /\ wk' = [wk EXCEPT ![w].path = Head(work),
                                ![w].pc = IF hashResult[Head(work)] = "ok"
                                          THEN "lock" ELSE "skip"]
    /\ UNCHANGED <<scanner, hashResult, scanpc, results, resultsMu, scanned,
                   progress, scanRet>>
    /\ UNCHANGED besidesScan

\* err != nil: atomic.AddInt64(&scanned, 1); continue
WorkerSkip(w) ==
    /\ scanpc = "wait"
    /\ wk[w].pc = "skip"
    /\ scanned' = scanned + 1
    /\ wk' = [wk EXCEPT ![w].pc = "range"]
    /\ UNCHANGED <<scanner, hashResult, scanpc, work, results, resultsMu,
                   progress, scanRet>>
    /\ UNCHANGED taken
    /\ UNCHANGED besidesScan

\* WorkerLock not waiting for the mutex
WorkerLockNoWait(w) ==
    /\ scanpc = "wait"
    /\ wk[w].pc = "lock"
    /\ resultsMu' = w
    /\ wk' = [wk EXCEPT ![w].view = results, ![w].pc = "append"]
    /\ UNCHANGED <<scanner, hashResult, scanpc, work, results, scanned,
                   progress, scanRet>>
    /\ UNCHANGED taken
    /\ UNCHANGED besidesScan

\* resultsMu.Lock(), and append reads the slice
WorkerLock(w) ==
    /\ scanpc = "wait"
    /\ wk[w].pc = "lock"
    /\ resultsMu = NoWorker
    /\ resultsMu' = w
    /\ wk' = [wk EXCEPT ![w].view = results, ![w].pc = "append"]
    /\ UNCHANGED <<scanner, hashResult, scanpc, work, results, scanned,
                   progress, scanRet>>
    /\ UNCHANGED taken
    /\ UNCHANGED besidesScan

\* append writes the slice with the new element, and resultsMu.Unlock()
WorkerAppend(w) ==
    /\ scanpc = "wait"
    /\ wk[w].pc = "append"
    /\ results' = Append(wk[w].view, wk[w].path)
    /\ resultsMu' = NoWorker
    /\ wk' = [wk EXCEPT ![w].pc = "count"]
    /\ UNCHANGED <<scanner, hashResult, scanpc, work, scanned, progress, scanRet>>
    /\ UNCHANGED taken
    /\ UNCHANGED besidesScan

\* n := atomic.AddInt64(&scanned, 1)
WorkerCount(w) ==
    /\ scanpc = "wait"
    /\ wk[w].pc = "count"
    /\ scanned' = scanned + 1
    /\ wk' = [wk EXCEPT ![w].n = scanned + 1,
                        ![w].pc = IF scanner.progressFn THEN "progress" ELSE "range"]
    /\ UNCHANGED <<scanner, hashResult, scanpc, work, results, resultsMu,
                   progress, scanRet>>
    /\ UNCHANGED taken
    /\ UNCHANGED besidesScan

\* s.progressFn(int(n), total, path)
WorkerProgress(w) ==
    /\ scanpc = "wait"
    /\ wk[w].pc = "progress"
    /\ progress' = Append(progress, <<wk[w].n, total, wk[w].path>>)
    /\ wk' = [wk EXCEPT ![w].pc = "range"]
    /\ UNCHANGED <<scanner, hashResult, scanpc, work, results, resultsMu,
                   scanned, scanRet>>
    /\ UNCHANGED taken
    /\ UNCHANGED besidesScan

\* wg.Wait() returns once every worker has left its loop: return results, nil
ScanFolderReturn ==
    /\ scanpc = "wait"
    /\ \A w \in DOMAIN wk : wk[w].pc = "exit"
    /\ scanRet' = [images |-> results, err |-> "nil"]
    /\ scanpc' = "returned"
    /\ UNCHANGED <<scanner, hashResult, work, results, resultsMu, scanned, wk,
                   progress>>
    /\ UNCHANGED taken
    /\ UNCHANGED besidesScan

----------------------------------------------------------------------------
(* The web server's idle timeout.  Time is counted in units;
   server.sinceLastActivity is time.Since(s.lastActivity), counted up to
   idleTimeout (all that "idle >= s.idleTimeout" depends on).  The ticker
   fires at any time.  Signals (SIGINT, SIGTERM) are left out. *)

recordActivity(s) == [s EXCEPT !.sinceLastActivity = 0]

setTabActive(s, active) ==
    [s EXCEPT !.tabActive = active,
              !.sinceLastActivity = IF active THEN 0 ELSE @]

\* a unit of time passes
TimePasses ==
    /\ httpServer = "listening"
    /\ server.sinceLastActivity < server.idleTimeout
    /\ server' = [server EXCEPT !.sinceLastActivity = @ + 1]
    /\ UNCHANGED <<checker, tickerC, conns, httpServer, quiet>>
    /\ UNCHANGED besidesServe

\* the ticker of idleTimeoutChecker sends a tick (its channel holds one)
TickerFire ==
    /\ checker.pc \in {"select", "decide"}
    /\ ~tickerC
    /\ tickerC' = TRUE
    /\ UNCHANGED <<server, checker, conns, httpServer, quiet>>
    /\ UNCHANGED besidesServe

\* case <-ticker.C: the section of idleTimeoutChecker under s.mu
CheckerTick ==
    /\ checker.pc = "select"
    /\ tickerC
    /\ tickerC' = FALSE
    /\ IF server.tabActive \/ server.activeClients > 0
       THEN /\ server' = recordActivity(server)
            /\ UNCHANGED checker
       ELSE /\ checker' = [pc |-> "decide", idle |-> server.sinceLastActivity]
            /\ UNCHANGED server
    /\ UNCHANGED <<conns, httpServer, quiet>>
    /\ UNCHANGED besidesServe

\* after s.mu.Unlock(): if idle >= s.idleTimeout { close(s.shutdownChan); return }
CheckerDecide ==
    /\ checker.pc = "decide"
    /\ IF checker.idle >= server.idleTimeout
       THEN /\ server' = [server EXCEPT !.shutdownChan =
                             IF @ = "open" THEN "closed" ELSE "panic"]
            /\ checker' = [checker EXCEPT !.pc = "returned"]
       ELSE /\ checker' = [checker EXCEPT !.pc = "select"]
            /\ UNCHANGED server
    /\ UNCHANGED <<tickerC, conns, httpServer, quiet>>
    /\ UNCHANGED besidesServe

\* case <-s.shutdownChan of handleShutdownSignals: httpServer.Shutdown
handleShutdownSignals ==
    /\ httpServer = "listening"
    /\ server.shutdownChan = "closed"
    /\ httpServer' = "shutdown"
    /\ UNCHANGED <<server, checker, tickerC, conns, quiet>>
    /\ UNCHANGED besidesServe

\* handleGroups, handleClean or handleImage: s.recordActivity()
handleRequest ==
    /\ httpServer = "listening"
    /\ ~quiet
    /\ server' = recordActivity(server)
    /\ UNCHANGED <<checker, tickerC, conns, httpServer, quiet>>
    /\ UNCHANGED besidesServe

\* handleWebSocket up to its read loop: the upgrade and "Track active client"
handleWebSocket(cl) ==
    /\ httpServer = "listening"
    /\ ~quiet
    /\ conns[cl].pc = "none"
    /\ server' = [server EXCEPT !.activeClients = @ + 1,
                                !.sinceLastActivity = 0]
    /\ conns' = [conns EXCEPT ![cl].pc = "read"]
    /\ UNCHANGED <<checker, tickerC, httpServer, quiet>>
    /\ UNCHANGED besidesServe

\* readWSMessage returns a message: s.recordActivity()
WSMessage(cl) ==
    /\ ~quiet
    /\ conns[cl].pc = "read"
    /\ \E msg \in {"ping", "tab_active:true", "tab_active:false"} :
          /\ server' = recordActivity(server)
          /\ conns' = [conns EXCEPT ![cl] =
                          [pc |-> IF msg = "ping" THEN "read" ELSE "tab",
                           msg |-> msg]]
    /\ UNCHANGED <<checker, tickerC, httpServer, quiet>>
    /\ UNCHANGED besidesServe

\* "Handle tab visibility": s.setTabActive(true) or s.setTabActive(false)
WSSetTabActive(cl) ==
    /\ conns[cl].pc = "tab"
    /\ server' = setTabActive(server, conns[cl].msg = "tab_active:true")
    /\ conns' = [conns EXCEPT ![cl].pc = "read"]
    /\ UNCHANGED <<checker, tickerC, httpServer, quiet>>
    /\ UNCHANGED besidesServe

\* readWSMessage returns an error (the client closed the connection): break,
\* and the deferred function decrements activeClients
WSClose(cl) ==
    /\ conns[cl].pc = "read"
    /\ server' = [server EXCEPT !.activeClients = @ - 1]
    /\ conns' = [conns EXCEPT ![cl].pc = "none"]
    /\ UNCHANGED <<checker, tickerC, httpServer, quiet>>
    /\ UNCHANGED besidesServe

\* the last operation is over: no client is connected, and from now on none
\* connects and no request arrives
GoQuiet ==
    /\ httpServer = "listening"
    /\ ~quiet
    /\ \A cl \in DOMAIN conns : conns[cl].pc = "none"
    /\ quiet' = TRUE
    /\ UNCHANGED <<server, checker, tickerC, conns, httpServer>>
    /\ UNCHANGED besidesServe

ScoreOf(p) == IF p \in {2, 3} THEN 2 ELSE 1

ImageInfo(p, hash, fileHash, score, fileSize, modTime) ==
    [Path |-> PathOf(p), Hash |-> hash, FileHash |-> fileHash, Score |-> score,
     FileSize |-> fileSize, ModTime |-> modTime, GroupID |-> 0]

InitLocals ==
    /\ pc = "ready"
    /\ i = 0
    /\ uf = newUnionFind(0)
    /\ tree = newBKTree
    /\ groupMap = EmptyMap
    /\ todo = {}
    /\ groupID = 0
    /\ groups = <<>>
    /\ run = 1
    /\ first = [images |-> <<>>, groups |-> <<>>]

\* The state of the parts a specification does not run
TreeIdle == inserted = <<>> /\ found = NoQuery

UFIdle == ufPairs = {}

HammingIdle ==
    /\ fp = [a |-> {}, b |-> {}, c |-> {}]
    /\ hpc = "idle"
    /\ hxor = {}
    /\ hcount = 0
    /\ hret = 0
    /\ pairDist = EmptyMap

StoreIdle ==
    /\ table = EmptyMap
    /\ tableBefore = EmptyMap
    /\ spc = "idle"
    /\ files = {}
    /\ cleaned = {}

ScanIdle ==
    /\ scanner = [workers |-> 0, progressFn |-> FALSE]
    /\ hashResult = <<>>
    /\ scanpc = "idle"
    /\ work = <<>>
    /\ results = <<>>
    /\ resultsMu = NoWorker
    /\ scanned = 0
    /\ wk = <<>>
    /\ progress = <<>>
    /\ scanRet = [images |-> <<>>, err |-> "none"]
    /\ taken = <<>>

ServeIdle ==
    /\ server = [idleTimeout |-> 0, sinceLastActivity |-> 0, tabActive |-> FALSE,
                 activeClients |-> 0, shutdownChan |-> "open"]
    /\ checker = [pc |-> "off", idle |-> 0]
    /\ tickerC = FALSE
    /\ conns = <<>>
    /\ httpServer = "off"
    /\ quiet = FALSE

OthersIdle == TreeIdle /\ UFIdle /\ HammingIdle /\ StoreIdle /\ ScanIdle /\ ServeIdle

\* no matcher: every variable of the matcher but uf and tree
NoMatcher ==
    /\ mode = "none"
    /\ req = 0
    /\ threshold = 0
    /\ items = <<>>
    /\ images = <<>>
    /\ pc = "idle"
    /\ i = 0
    /\ groupMap = EmptyMap
    /\ todo = {}
    /\ groupID = 0
    /\ groups = <<>>
    /\ run = 1
    /\ first = [images |-> <<>>, groups |-> <<>>]

InitPerceptual(maxItems, thresholds) ==
    /\ mode = "perceptual"
    /\ req \in thresholds
    /\ threshold = NewPerceptualMatcher(req)
    /\ \E len \in 0..maxItems :
          /\ images = [k \in 1..len |-> k]
          /\ \E hashes \in [1..len -> HashPool] :
                items = [p \in 1..len |-> ImageInfo(p, hashes[p], "", ScoreOf(p), 1, 1)]
    /\ InitLocals
    /\ OthersIdle

InitExact(maxItems) ==
    /\ mode = "exact"
    /\ req = DefaultThreshold
    /\ threshold = NewPerceptualMatcher(req)
    /\ \E len \in 0..maxItems :
          /\ images = [k \in 1..len |-> k]
          /\ \E fileHashes \in [1..len -> FileHashPool], scores \in [1..len -> {1, 2}] :
                items = [p \in 1..len |-> ImageInfo(p, {}, fileHashes[p], scores[p], 1, 1)]
    /\ InitLocals
    /\ OthersIdle

\* images of every score, size and time, in ascending or descending pointer order
InitKeep ==
    /\ mode = "exact"
    /\ req = DefaultThreshold
    /\ threshold = NewPerceptualMatcher(req)
    /\ \E len \in 0..MaxKeepItems :
          /\ images \in { [k \in 1..len |-> k], [k \in 1..len |-> len + 1 - k] }
          /\ \E fileHashes \in [1..len -> {"x", "y"}], scores \in [1..len -> {1, 2}],
                sizes \in [1..len -> {1, 2}], times \in [1..len -> {1, 2}] :
                items = [p \in 1..len |->
                           ImageInfo(p, {}, fileHashes[p], scores[p], sizes[p], times[p])]
    /\ InitLocals
    /\ OthersIdle

Init == InitPerceptual(MaxItems, ThresholdPool) \/ InitExact(MaxItems)

Next ==
    \/ FindGroups
    \/ FindNeighbors
    \/ CollectGroups
    \/ ExactFindGroups
    \/ BuildGroup
    \/ SortGroups

Spec == Init /\ [][Next]_vars

NextKeep ==
    \/ ExactFindGroups
    \/ BuildGroup
    \/ SortGroups

SpecKeep == InitKeep /\ [][NextKeep]_vars

InitRerun == InitPerceptual(MaxRerunItems, {1, DefaultThreshold})

NextRerun ==
    \/ FindGroups
    \/ FindNeighbors
    \/ CollectGroups
    \/ BuildGroup
    \/ SortGroups
    \/ SecondCall

SpecRerun == InitRerun /\ [][NextRerun]_vars

\* Two calls of FindGroups, of either matcher, on enough images for two
\* clusters
InitRerunIDs == InitPerceptual(MaxIDItems, {1}) \/ InitExact(MaxIDItems)

NextRerunIDs ==
    \/ FindGroups
    \/ FindNeighbors
    \/ CollectGroups
    \/ ExactFindGroups
    \/ BuildGroup
    \/ SortGroups
    \/ SecondCall

SpecRerunIDs == InitRerunIDs /\ [][NextRerunIDs]_vars

\* PerceptualMatcher.FindGroups with the query of an iteration and its
\* unions and insert as two steps
InitQuery == InitPerceptual(MaxQueryItems, {1, 2, DefaultThreshold, HashBits})

NextQuery ==
    \/ FindGroups
    \/ QueryNeighbors
    \/ UnionAndInsert
    \/ CollectGroups
    \/ BuildGroup
    \/ SortGroups

SpecQuery == InitQuery /\ [][NextQuery]_vars

\* The bkTree alone: inserts and queries on a tree that starts empty
InitTree ==
    /\ NoMatcher
    /\ uf = newUnionFind(0)
    /\ tree = newBKTree
    /\ TreeIdle /\ UFIdle /\ HammingIdle /\ StoreIdle /\ ScanIdle /\ ServeIdle

NextTree == TreeInsert \/ TreeFind

SpecTree == InitTree /\ [][NextTree]_vars

\* The bkTree under inserts alone (a query leaves the tree as it is)
NextInserts == TreeInsertDeep

SpecInserts == InitTree /\ [][NextInserts]_vars

\* The unionFind alone: unions and finds on newUnionFind(UFSize)
InitUF ==
    /\ NoMatcher
    /\ uf = newUnionFind(UFSize)
    /\ tree = newBKTree
    /\ TreeIdle /\ UFIdle /\ HammingIdle /\ StoreIdle /\ ScanIdle /\ ServeIdle

NextUF == UFUnion \/ UFFind

SpecUF == InitUF /\ [][NextUF]_vars

\* HammingDistance alone, on any three fingerprints of the pool.  The loop
\* is sequential code: a statement that can run does run.
InitHamming ==
    /\ NoMatcher
    /\ uf = newUnionFind(0)
    /\ tree = newBKTree
    /\ TreeIdle /\ UFIdle /\ StoreIdle /\ ScanIdle /\ ServeIdle
    /\ fp \in [a : HammingPool, b : HammingPool, c : HammingPool]
    /\ hpc = "call"
    /\ hxor = {}
    /\ hcount = 0
    /\ hret = 0
    /\ pairDist = EmptyMap

NextHamming == HammingCall \/ HammingLoop \/ HammingReturn \/ HammingPairs

SpecHamming == InitHamming /\ [][NextHamming]_vars /\ WF_vars(NextHamming)

\* an image of an earlier scan, of another folder
OldImage == MaxStoreItems + 1

\* imagedupfinder scan, then imagedupfinder clean any number of times, on a
\* database that is new or holds a group of an earlier scan.  The images
\* have any scores; those with an odd pointer are the larger files.
InitStore ==
    /\ mode = "grouper"
    /\ req = 0
    /\ threshold = NewGrouper(req)
    /\ \E len \in 1..MaxStoreItems :
          /\ images = [k \in 1..len |-> k]
          /\ \E hashes \in [1..len -> { {}, {0} }], scores \in [1..len -> {1, 2}] :
                items = [p \in (1..len) \cup {OldImage} |->
                           IF p = OldImage THEN ImageInfo(p, {}, "", 1, 1, 1)
                           ELSE ImageInfo(p, hashes[p], "", scores[p], 1 + (p % 2), 1)]
    /\ pc = "idle"
    /\ i = 0
    /\ uf = newUnionFind(0)
    /\ tree = newBKTree
    /\ groupMap = EmptyMap
    /\ todo = {}
    /\ groupID = 0
    /\ groups = <<>>
    /\ run = 1
    /\ first = [images |-> <<>>, groups |-> <<>>]
    /\ table \in { EmptyMap, [q \in {1, OldImage} |-> 1] }
    /\ tableBefore = table
    /\ spc = "scan"
    /\ files = DOMAIN items
    /\ cleaned = {}
    /\ TreeIdle /\ UFIdle /\ HammingIdle /\ ScanIdle /\ ServeIdle

NextStore ==
    \/ RunScanSave
    \/ GrouperFindPairs
    \/ BuildGroup
    \/ SortGroups
    \/ UpdateGroups
    \/ runClean

SpecStore == InitStore /\ [][NextStore]_vars

\* ScanFolder of a Scanner with any number of workers, with or without a
\* progress callback, on a folder of any images
InitScan ==
    /\ NoMatcher
    /\ uf = newUnionFind(0)
    /\ tree = newBKTree
    /\ TreeIdle /\ UFIdle /\ HammingIdle /\ StoreIdle /\ ServeIdle
    /\ scanner \in [workers : 1..MaxWorkers, progressFn : BOOLEAN]
    /\ \E len \in 0..MaxPaths : hashResult \in [1..len -> {"ok", "error", "timeout"}]
    /\ scanpc = "walk"
    /\ work = <<>>
    /\ results = <<>>
    /\ resultsMu = NoWorker
    /\ scanned = 0
    /\ wk = <<>>
    /\ progress = <<>>
    /\ scanRet = [images |-> <<>>, err |-> "none"]
    /\ taken = <<>>

NextScan ==
    \/ ScanFolder
    \/ \E w \in DOMAIN wk :
          \/ WorkerRange(w)
          \/ WorkerSkip(w)
          \/ WorkerLock(w)
          \/ WorkerAppend(w)
          \/ WorkerCount(w)
          \/ WorkerProgress(w)
    \/ ScanFolderReturn

SpecScan == InitScan /\ [][NextScan]_vars

InitScanLive ==
    /\ NoMatcher
    /\ uf = newUnionFind(0)
    /\ tree = newBKTree
    /\ TreeIdle /\ UFIdle /\ HammingIdle /\ StoreIdle /\ ServeIdle
    /\ scanner \in [workers : 1..MaxLiveWorkers, progressFn : BOOLEAN]
    /\ \E len \in 0..MaxLivePaths :
          hashResult \in [1..len -> {"ok", "error", "timeout"}]
    /\ scanpc = "walk"
    /\ work = <<>>
    /\ results = <<>>
    /\ resultsMu = NoWorker
    /\ scanned = 0
    /\ wk = <<>>
    /\ progress = <<>>
    /\ scanRet = [images |-> <<>>, err |-> "none"]
    /\ taken = <<>>

\* ScanFolder when the goroutines keep being scheduled and every call of
\* HashImageWithTimeout returns: a step that can be taken is taken
SpecScanLive == InitScanLive /\ [][NextScan]_vars /\ WF_vars(NextScan)

\* The web server after New and Start, for any idle timeout (0 disables the
\* idle checker)
InitServe ==
    /\ NoMatcher
    /\ uf = newUnionFind(0)
    /\ tree = newBKTree
    /\ TreeIdle /\ UFIdle /\ HammingIdle /\ StoreIdle /\ ScanIdle
    /\ \E t \in 0..MaxIdleTimeout :
          /\ server = [idleTimeout |-> t, sinceLastActivity |-> 0,
                       tabActive |-> FALSE, activeClients |-> 0,
                       shutdownChan |-> "open"]
          /\ checker = [pc |-> IF t > 0 THEN "select" ELSE "off", idle |-> 0]
    /\ tickerC = FALSE
    /\ conns = [cl \in 1..MaxClients |-> [pc |-> "none", msg |-> ""]]
    /\ httpServer = "listening"
    /\ quiet = FALSE

NextServe ==
    \/ TimePasses
    \/ TickerFire
    \/ CheckerTick
    \/ CheckerDecide
    \/ handleShutdownSignals
    \/ handleRequest
    \/ \E cl \in DOMAIN conns :
          \/ handleWebSocket(cl)
          \/ WSMessage(cl)
          \/ WSSetTabActive(cl)
          \/ WSClose(cl)
    \/ GoQuiet

SpecServe == InitServe /\ [][NextServe]_vars

\* the web server when time passes, the ticker keeps firing and the idle
\* checker keeps being scheduled
SpecServeLive ==
    /\ InitServe
    /\ [][NextServe]_vars
    /\ WF_vars(TimePasses)
    /\ WF_vars(TickerFire)
    /\ WF_vars(CheckerTick)
    /\ WF_vars(CheckerDecide)

----------------------------------------------------------------------------
(* Properties of the matchers *)

Members(g) == Range(g.Images)

PathsOf(P) == {items[p].Path : p \in P}

\* the clusters of a result, as sets of member paths
ClusterPaths(gs) == {PathsOf(Members(gs[k])) : k \in DOMAIN gs}

Near(p, q, t) == HammingDistance(items[p].Hash, items[q].Hash) <= t

\* the images reachable from those of S by steps along the pairs of near
RECURSIVE Reach(_, _)
Reach(S, near) ==
    LET S2 == S \cup {q \in Range(images) : \E p \in S : <<p, q>> \in near}
    IN  IF S2 = S THEN S ELSE Reach(S2, near)

\* the connected components of size >= 2 of the "within t" graph
Components(t) ==
    LET near == {pq \in Range(images) \X Range(images) : Near(pq[1], pq[2], t)}
    IN  {C \in {Reach({p}, near) : p \in Range(images)} : Cardinality(C) >= 2}

\* C1: for a threshold in 0..64 the perceptual matcher returns, as sets of
\* member paths, exactly the clusters of the brute-force Grouper, which are
\* the connected components of size >= 2 of the "within threshold" graph,
\* each once.
C1_EquivalenceWithBruteForce ==
    (mode = "perceptual" /\ pc = "done" /\ req \in 0..HashBits) =>
        /\ ClusterPaths(groups) =
               {PathsOf(C) : C \in GrouperFindGroups(images, items, NewGrouper(req))}
        /\ LET components == Components(req)
           IN  /\ ClusterPaths(groups) = {PathsOf(C) : C \in components}
               /\ Len(groups) = Cardinality(components)

\* a chain of three images forms one cluster and a fourth image is left out
C1_Witness ==
    /\ mode = "perceptual" /\ pc = "done" /\ req \in 0..HashBits
    /\ n = 4
    /\ \E k \in DOMAIN groups :
          /\ Len(groups[k].Images) = 3
          /\ \E p, q \in Members(groups[k]) : ~Near(p, q, req)

NoDuplicates(s) == \A a, b \in DOMAIN s : a # b => s[a] # s[b]

\* C2: in every emitted cluster Keep is a member that the comparator puts
\* before every other member (and none before it), and Remove holds every
\* other member exactly once and not Keep, so len(Remove) = len(Images) - 1.
C2_ClusterInvariant ==
    \A k \in DOMAIN groups :
        LET g == groups[k]
        IN  /\ g.Keep \in Members(g)
            /\ \A m \in Members(g) \ {g.Keep} :
                   /\ imageLess(items[g.Keep], items[m])
                   /\ ~imageLess(items[m], items[g.Keep])
            /\ NoDuplicates(g.Remove)
            /\ Range(g.Remove) = Members(g) \ {g.Keep}
            /\ Len(g.Remove) = Len(g.Images) - 1

\* a returned cluster of three members whose Keep is not the first member
C2_Witness ==
    /\ pc = "done"
    /\ \E k \in DOMAIN groups :
          /\ Len(groups[k].Images) = 3
          /\ groups[k].Keep # groups[k].Images[1]
          /\ Len(groups[k].Remove) = 2

\* a is a proper prefix of b or has the smaller byte at the first difference
LexSmaller(a, b) ==
    \E k \in 1..Len(b) :
        /\ \A j \in 1..(k - 1) : j <= Len(a) /\ a[j] = b[j]
        /\ \/ k = Len(a) + 1
           \/ k <= Len(a) /\ a[k] < b[k]

\* the members left after each criterion of the tie-break, in turn
BestScore(M) == {p \in M : \A q \in M : items[p].Score >= items[q].Score}
BestSize(M) == {p \in BestScore(M) : \A q \in BestScore(M) : items[p].FileSize >= items[q].FileSize}
BestTime(M) == {p \in BestSize(M) : \A q \in BestSize(M) : items[p].ModTime >= items[q].ModTime}
BestPath(M) == {p \in BestTime(M) : \A q \in BestTime(M) \ {p} : LexSmaller(items[p].Path, items[q].Path)}

\* C3: Keep is the member with the highest Score, among those the largest
\* FileSize, among those the latest ModTime, among those the smallest Path:
\* a function of the set of members, not of their order.
C3_KeepByTieBreak ==
    \A k \in DOMAIN groups : BestPath(Members(groups[k])) = {groups[k].Keep}

\* the path decides between members tied on score, size and time, and the
\* winner is not the first member of the cluster
C3_Witness ==
    /\ pc = "done"
    /\ \E k \in DOMAIN groups :
          /\ Cardinality(BestTime(Members(groups[k]))) >= 2
          /\ Cardinality(BestScore(Members(groups[k]))) < Len(groups[k].Images)
          /\ groups[k].Keep # groups[k].Images[1]

\* C4: no cluster of the output, in either mode, has fewer than 2 members.
C4_NoSmallCluster ==
    \A k \in DOMAIN groups : Len(groups[k].Images) >= 2

\* a result with a cluster, built from a group map that also held a singleton
C4_Witness ==
    /\ pc = "done"
    /\ groups # <<>>
    /\ \E k \in DOMAIN groupMap : Len(groupMap[k]) = 1

\* C5: a matcher constructed with a threshold above 64 has threshold 10 and
\* returns the clusters of threshold 10.
C5_ClampAbove64 ==
    (mode = "perceptual" /\ req > HashBits /\ pc = "done") =>
        /\ GetThreshold = DefaultThreshold
        /\ ClusterPaths(groups) = {PathsOf(C) : C \in Components(DefaultThreshold)}

\* C6: a matcher constructed with a negative threshold has threshold 10 and
\* returns the clusters of threshold 10.
C6_NegativeThresholdDefault ==
    (mode = "perceptual" /\ req < 0) =>
        /\ GetThreshold = DefaultThreshold
        /\ pc = "done" =>
               /\ ClusterPaths(groups) = {PathsOf(C) : C \in Components(DefaultThreshold)}
               /\ Len(groups) = Cardinality(Components(DefaultThreshold))

\* a negative threshold clustered two images at distance 10 and left out an
\* image at distance 11 from its nearest
C6_Witness ==
    /\ mode = "perceptual" /\ req < 0 /\ pc = "done"
    /\ \E k \in DOMAIN groups : \E p, q \in Members(groups[k]) :
          HammingDistance(items[p].Hash, items[q].Hash) = DefaultThreshold
    /\ \E p \in Range(images) :
          /\ \A k \in DOMAIN groups : p \notin Members(groups[k])
          /\ \E q \in Range(images) :
                HammingDistance(items[p].Hash, items[q].Hash) = DefaultThreshold + 1
          /\ \A q \in Range(images) \ {p} :
                HammingDistance(items[p].Hash, items[q].Hash) > DefaultThreshold

\* C7: on an input of 0 or 1 items FindGroups, perceptual or exact, goes
\* straight to its return with no cluster: nothing is put in the tree or in
\* the group map and no GroupID is written.
C7_FewerThanTwoItems ==
    n < 2 =>
        /\ pc \in {"ready", "done"}
        /\ groups = <<>>
        /\ tree = newBKTree
        /\ groupMap = EmptyMap
        /\ \A p \in DOMAIN items : items[p].GroupID = 0

\* FindGroups of the perceptual matcher has returned on a single image
C7_Witness ==
    /\ mode = "perceptual" /\ pc = "done" /\ n = 1
    /\ groups = <<>>

\* the non-empty FileHash values that at least 2 images share
SharedFileHashes ==
    {h \in {items[p].FileHash : p \in Range(images)} :
        /\ h # ""
        /\ Cardinality({p \in Range(images) : items[p].FileHash = h}) >= 2}

\* C8: the exact matcher returns one cluster for each non-empty FileHash
\* shared by at least 2 images, holding exactly the images with that
\* FileHash; an image with an empty FileHash is in no cluster.
C8_ExactGroups ==
    (mode = "exact" /\ pc = "done") =>
        /\ {Members(groups[k]) : k \in DOMAIN groups} =
               {{p \in Range(images) : items[p].FileHash = h} : h \in SharedFileHashes}
        /\ Len(groups) = Cardinality(SharedFileHashes)
        /\ \A k \in DOMAIN groups : NoDuplicates(groups[k].Images)
        /\ \A p \in Range(images) :
               items[p].FileHash = "" => \A k \in DOMAIN groups : p \notin Members(groups[k])

\* two images without FileHash stay out while two others form a cluster
C8_Witness ==
    /\ mode = "exact" /\ pc = "done"
    /\ Cardinality({p \in Range(images) : items[p].FileHash = ""}) >= 2
    /\ Len(groups) = 1

\* C9: a second call on the same images in the same order returns the same
\* member partition as the first.
C9_SamePartitionTwice ==
    (run = 2 /\ pc = "done" /\ images = first.images) =>
        ClusterPaths(groups) = ClusterPaths(first.groups)

\* both calls ranged over a group map of several keys and returned a cluster
C9_Witness ==
    /\ run = 2 /\ pc = "done" /\ images = first.images
    /\ groups # <<>>
    /\ Cardinality(DOMAIN groupMap) >= 2

\* the clusters of a result with their Keep, by path
ClusterKeeps(gs) ==
    {<<PathsOf(Members(gs[k])), items[gs[k].Keep].Path>> : k \in DOMAIN gs}

\* C10: a call on any permutation of the images returns the same clusters
\* with the same Keep in each.
C10_PermutationInvariant ==
    (run = 2 /\ pc = "done") =>
        ClusterKeeps(groups) = ClusterKeeps(first.groups)

\* the second call got the images in another order, so that the BK-tree has
\* another root, and returned a cluster of three
C10_Witness ==
    /\ run = 2 /\ pc = "done"
    /\ n >= 3
    /\ images[1] # first.images[1]
    /\ \E k \in DOMAIN groups : Len(groups[k].Images) = 3

\* the item p with its GroupID field blanked
SansGroupID(its, p) == [its[p] EXCEPT !.GroupID = 0]

\* C11 as stated: no step of FindGroups changes any field of any item.
C11_ItemsNeverModified == [][items' = items]_vars

\* C11: FindGroups changes no field of an input ImageInfo other than GroupID;
\* a GroupID is written only when a cluster is emitted, to the ID of that
\* cluster and for its members only, so that in the returned result every
\* member of a cluster carries the cluster's ID and every other item is as it
\* was before the call.
C11_OnlyGroupIDAssigned ==
    /\ [][\A p \in DOMAIN items :
             /\ SansGroupID(items', p) = SansGroupID(items, p)
             /\ items'[p].GroupID # items[p].GroupID =>
                   /\ Len(groups') = Len(groups) + 1
                   /\ p \in Members(groups'[Len(groups')])
                   /\ items'[p].GroupID = groups'[Len(groups')].ID]_vars
    /\ [](pc = "done" =>
             \A p \in DOMAIN items :
                 IF \E k \in DOMAIN groups : p \in Members(groups[k])
                 THEN \A k \in DOMAIN groups :
                          p \in Members(groups[k]) => items[p].GroupID = groups[k].ID
                 ELSE items[p].GroupID = 0)

\* FindGroups has returned two clusters, and an item of the second carries 2
C11_Witness ==
    /\ pc = "done"
    /\ Len(groups) = 2
    /\ \E p \in Members(groups[2]) : items[p].GroupID = 2
    /\ \E p \in DOMAIN items : items[p].GroupID = 1

\* s without its elements equal to x, in the order of s
Without(s, x) == LET Other(p) == p # x IN SelectSeq(s, Other)

\* p is ranked before q: higher Score, then larger FileSize, then later
\* ModTime, then smaller Path
RankedBefore(p, q) ==
    \/ items[p].Score > items[q].Score
    \/ /\ items[p].Score = items[q].Score
       /\ \/ items[p].FileSize > items[q].FileSize
          \/ /\ items[p].FileSize = items[q].FileSize
             /\ \/ items[p].ModTime > items[q].ModTime
                \/ /\ items[p].ModTime = items[q].ModTime
                   /\ LexSmaller(items[p].Path, items[q].Path)

\* C12 as stated: Remove is Images without Keep, in the order of Images.
C12_RemoveInMemberOrder ==
    pc = "done" =>
        \A k \in DOMAIN groups :
            groups[k].Remove = Without(groups[k].Images, groups[k].Keep)

\* C12: in every emitted cluster Remove lists the non-Keep members in the
\* order of the tie-break comparator, best first (Score descending, then
\* FileSize descending, then ModTime descending, then Path ascending), which
\* need not be the order of Images.
C12_RemoveInRankOrder ==
    pc = "done" =>
        \A k \in DOMAIN groups :
            LET g == groups[k]
            IN  /\ Range(g.Remove) = Members(g) \ {g.Keep}
                /\ \A a, b \in DOMAIN g.Remove :
                       a < b => RankedBefore(g.Remove[a], g.Remove[b])
                /\ \A a \in DOMAIN g.Remove : RankedBefore(g.Keep, g.Remove[a])

\* a cluster of three whose Remove is not in the order of its Images
C12_Witness ==
    /\ pc = "done"
    /\ \E k \in DOMAIN groups :
          /\ Len(groups[k].Remove) = 2
          /\ groups[k].Remove # Without(groups[k].Images, groups[k].Keep)

\* C13: the returned list has the IDs 1, 2, .., k in this order: ascending,
\* without gap or duplicate, the groups of fewer than 2 images that
\* buildGroups skipped having taken none.
C13_IDsAreOneToK ==
    pc = "done" => \A k \in DOMAIN groups : groups[k].ID = k

\* buildGroups met two singleton groups and one cluster, which has ID 1
C13_Witness ==
    /\ pc = "done"
    /\ Cardinality(DOMAIN groupMap) = 3
    /\ Len(groups) = 1
    /\ groups[1].ID = 1

\* the number of bit positions in which x and y differ
DiffBits(x, y) == Cardinality((x \ y) \cup (y \ x))

\* the indices inserted with a hash at most r bits from q
WithinRadius(q, r) ==
    {k \in 0..(Len(inserted) - 1) : DiffBits(inserted[k + 1], q) <= r}

\* C14: after any sequence of insert(hash, index) calls a query
\* findWithinDistance(q, r), r >= 0, returns exactly the inserted indices
\* whose hash is at most r bits from q, each once (equal hashes included),
\* and nothing on the empty tree.
C14_ExactRangeQuery ==
    found.threshold >= 0 =>
        /\ NoDuplicates(found.results)
        /\ Range(found.results) = WithinRadius(found.hash, found.threshold)
        /\ inserted = <<>> => found.results = <<>>

\* a query on four entries, two of them with the same hash and both
\* reported, one entry beyond the radius and one subtree pruned away
C14_Witness ==
    /\ found.threshold >= 1
    /\ Len(inserted) = 4
    /\ \E j, k \in Range(found.results) :
          j # k /\ inserted[j + 1] = inserted[k + 1]
    /\ Len(found.results) < Len(inserted)
    /\ \E d \in DOMAIN tree[1].children :
          d > DiffBits(found.hash, tree[1].hash) + found.threshold

\* C15: on any fingerprints a, b, c the distances HammingDistance returns
\* obey d(x,x) = 0, d(x,y) = 0 only if x = y, d(x,y) = d(y,x),
\* d(x,y) <= d(x,z) + d(z,y) and 0 <= d(x,y) <= 64.
C15_BoundedMetric ==
    hpc = "measured" =>
        \A x, y, z \in {"a", "b", "c"} :
            /\ pairDist[<<x, x>>] = 0
            /\ pairDist[<<x, y>>] = 0 => fp[x] = fp[y]
            /\ pairDist[<<x, y>>] = pairDist[<<y, x>>]
            /\ pairDist[<<x, y>>] <= pairDist[<<x, z>>] + pairDist[<<z, y>>]
            /\ 0 <= pairDist[<<x, y>>]
            /\ pairDist[<<x, y>>] <= HashBits

\* a and b differ in all 64 bits and a third fingerprint lies between them
C15_Witness ==
    /\ hpc = "measured"
    /\ pairDist[<<"a", "b">>] = HashBits
    /\ fp.c \notin {fp.a, fp.b}
    /\ pairDist[<<"a", "c">>] + pairDist[<<"c", "b">>] = HashBits

\* C16: HammingDistance(a, b) returns the number of bit positions in which a
\* and b differ: every pass of its loop clears one differing bit and counts
\* it, and the loop ends, for every pair of inputs.
C16_PopulationCount ==
    /\ [](hpc = "loop" =>
             /\ hxor \subseteq Xor(fp.a, fp.b)
             /\ hcount + Cardinality(hxor) = DiffBits(fp.a, fp.b))
    /\ [][hpc = "loop" /\ hxor' # hxor =>
             /\ Cardinality(hxor') = Cardinality(hxor) - 1
             /\ hcount' = hcount + 1]_vars
    /\ [](hpc \in {"returned", "measured"} => hret = DiffBits(fp.a, fp.b))
    /\ <>(hpc \in {"returned", "measured"})

\* 0xAAAAAAAAAAAAAAAA against 0x5555555555555555: 64 passes, 64 returned
C16_Witness ==
    /\ hpc = "returned"
    /\ fp.a # {} /\ fp.b # {}
    /\ hcount = HashBits
    /\ hret = HashBits

\* the indices a chain of the pairs given to union links to those of S
RECURSIVE Chained(_)
Chained(S) ==
    LET S2 == S \cup {y \in DOMAIN uf.parent :
                         \E x \in S : <<x, y>> \in ufPairs \/ <<y, x>> \in ufPairs}
    IN  IF S2 = S THEN S ELSE Chained(S2)

\* find(x) == find(y), the calls made one after the other
SameRoot(x, y) ==
    LET fx == find(uf, x)
        fy == find(fx.uf, y)
    IN  fx.root = fy.root

\* C17: on newUnionFind(n) every index is its own root, and after any unions
\* find(x) == find(y) exactly when a chain of the pairs given to union links
\* x and y.
C17_FindIffConnected ==
    /\ ufPairs = {} => \A x \in DOMAIN uf.parent : find(uf, x).root = x
    /\ \A x, y \in DOMAIN uf.parent : SameRoot(x, y) <=> y \in Chained({x})

\* two components of two indices each, kept apart, after two unions
C17_Witness ==
    /\ Cardinality(ufPairs) = 2
    /\ \E w, x, y, z \in DOMAIN uf.parent :
          /\ w # x /\ y # z
          /\ SameRoot(w, x) /\ SameRoot(y, z) /\ ~SameRoot(w, y)

\* the images runClean removed from disk
Cleaned == {c[1] : c \in cleaned}

\* C18: whatever the flags, runClean removes from disk only images that are
\* in the Remove list of a duplicate group of the scan, and never the Keep the
\* tie-break comparator chose for a group.
C18_OnlyRemoveNeverKeep ==
    \A q \in Cleaned :
        /\ \E k \in DOMAIN groups : q \in Range(groups[k].Remove)
        /\ \A k \in DOMAIN groups : q # groups[k].Keep

\* the pairs <<ID, member set>> of a list of groups
IDsAndMembers(gs) == {<<gs[k].ID, Members(gs[k])>> : k \in DOMAIN gs}

\* C19: after UpdateGroups(groups) succeeded every stored image of a cluster
\* has the cluster's ID as group_id and every other stored image has 0, and
\* GetDuplicateGroups returns the IDs and member sets of groups; after it
\* failed every group_id is as it was before the call.
C19_GroupsStored ==
    /\ (spc = "scanned" /\ cleaned = {}) =>
          /\ \A q \in DOMAIN table :
                 IF \E k \in DOMAIN groups : q \in Members(groups[k])
                 THEN \A k \in DOMAIN groups :
                          q \in Members(groups[k]) => table[q] = groups[k].ID
                 ELSE table[q] = 0
          /\ \A gs \in GetDuplicateGroups(table, items) :
                 IDsAndMembers(gs) = IDsAndMembers(groups)
    /\ spc = "update failed" => table = tableBefore

\* the database held a group of an earlier scan with an image of another
\* folder; the new scan found a group, stored it, and cleared the old one
C19_Witness ==
    /\ spc = "scanned" /\ cleaned = {}
    /\ OldImage \in DOMAIN tableBefore
    /\ tableBefore[OldImage] = 1
    /\ table[OldImage] = 0
    /\ Len(groups) = 1
    /\ \E q \in DOMAIN table : table[q] = 1

\* C20: for every number of workers and every interleaving ScanFolder
\* returns no error and exactly one ImageInfo for each discovered path that
\* was hashed, none for a path whose hashing failed or timed out.
C20_OnePerHashedPath ==
    scanpc = "returned" =>
        /\ scanRet.err = "nil"
        /\ NoDuplicates(scanRet.images)
        /\ Range(scanRet.images) = {k \in 1..total : hashResult[k] = "ok"}

\* two workers, three paths of which one failed: the other two are
\* returned, the later path first
C20_Witness ==
    /\ scanpc = "returned"
    /\ scanner.workers = 2
    /\ total = 3
    /\ Len(scanRet.images) = 2
    /\ scanRet.images[1] > scanRet.images[2]

\* C21: with a progress callback configured, ScanFolder has invoked it once
\* for each discovered file when it returns, that is exactly total times,
\* each time with the number of discovered files as total.
C21_ProgressOncePerItem ==
    (scanpc = "returned" /\ scanner.progressFn) =>
        /\ Len(progress) = total
        /\ \A k \in DOMAIN progress : progress[k][2] = total

\* C30: ScanFolder always terminates.  For every worker count and every
\* set of discovered paths ScanFolder returns; until it has returned some
\* step can be taken (no interleaving deadlocks); every path is received
\* from the work channel by exactly one worker; once the channel is drained
\* all workers leave their loop, and at the return they all have.
C30_ScanTerminates ==
    /\ <>(scanpc = "returned")
    /\ [](scanpc # "returned" => ENABLED NextScan)
    /\ []((scanpc = "returned" /\ total > 0) =>
            /\ work = <<>>
            /\ \A k \in 1..total : Len(taken[k]) = 1
            /\ \A w \in DOMAIN wk : wk[w].pc = "exit")
    /\ (scanpc = "wait" /\ work = <<>>) ~> (\A w \in DOMAIN wk : wk[w].pc = "exit")

\* two workers received one path each, the hashing of one path failed, and
\* ScanFolder returned
C30_Witness ==
    /\ scanpc = "returned"
    /\ scanner.workers = 2
    /\ total = 2
    /\ {taken[k][1] : k \in 1..total} = {1, 2}
    /\ \E k \in 1..total : hashResult[k] # "ok"

\* C22: with a positive idle timeout, once no WebSocket client is connected
\* and no request or message arrives any more, the idle checker eventually
\* closes shutdownChan, whatever happened before.
C22_IdleShutdown ==
    (server.idleTimeout > 0 /\ quiet) ~> (server.shutdownChan = "closed")

\* C23: the idle checker closes shutdownChan only when tabActive is false,
\* no WebSocket client is connected and idleTimeout has elapsed since the
\* last activity, and it closes it at most once.
C23_ShutdownOnlyWhenIdle ==
    /\ [][(server.shutdownChan # server'.shutdownChan) =>
            /\ ~server.tabActive
            /\ server.activeClients = 0
            /\ server.sinceLastActivity >= server.idleTimeout]_vars
    /\ [](server.shutdownChan # "panic")

\* C24: two runs of FindGroups on the same input return the same pairs of
\* ID and member set, whatever order buildGroups ranges over the group map
\* in, in perceptual and in exact mode.
C24_SameIDsTwice ==
    (run = 2 /\ pc = "done" /\ images = first.images) =>
        IDsAndMembers(groups) = IDsAndMembers(first.groups)

\* the indices of the items in the bkTree t
TreeIndices(t) == {t[k].index : k \in DOMAIN t}

\* C25: when FindGroups processes item i the BK-tree holds exactly the
\* items 0..i-1, each once, and the query for i returns only neighbours
\* j < i, not i itself and none twice: a pair of items is examined only in
\* the query of its later item.
C25_QueryBeforeInsert ==
    /\ pc \in {"loop", "unions"} =>
          /\ TreeIndices(tree) = 0..(i - 1)
          /\ Len(tree) = i
    /\ pc = "unions" =>
          /\ \A j \in Range(found.results) : j < i
          /\ NoDuplicates(found.results)

\* the query for the fourth item returned the three items before it
C25_Witness ==
    /\ pc = "unions"
    /\ i = 3
    /\ Range(found.results) = {0, 1, 2}

\* the nodes of the subtree of t under node, node included
RECURSIVE SubtreeOf(_, _)
SubtreeOf(t, node) ==
    {node} \cup UNION { SubtreeOf(t, t[node].children[d]) : d \in DOMAIN t[node].children }

\* the edges of t: <<parent, label, child>>
EdgesOf(t) ==
    UNION { {<<p, d, t[p].children[d]>> : d \in DOMAIN t[p].children} : p \in DOMAIN t }

\* C26: after any inserts, every node of the subtree under the child of a
\* node p at label c is at Hamming distance exactly c from p's hash, and
\* the root is the first inserted item; an insert adds exactly one leaf on
\* one new edge and leaves every existing node and edge as it was.
C26_TreeInvariant ==
    /\ [](/\ \A e \in EdgesOf(tree) : \A q \in SubtreeOf(tree, e[3]) :
                DiffBits(tree[q].hash, tree[e[1]].hash) = e[2]
          /\ tree # <<>> => (tree[1].hash = inserted[1] /\ tree[1].index = 0)
          /\ tree # <<>> => SubtreeOf(tree, 1) = DOMAIN tree)
    /\ [][tree' # tree =>
            /\ Len(tree') = Len(tree) + 1
            /\ tree'[Len(tree')] = bkNode(inserted'[Len(inserted')], Len(inserted))
            /\ \A k \in DOMAIN tree :
                  /\ tree'[k].hash = tree[k].hash
                  /\ tree'[k].index = tree[k].index
            /\ EdgesOf(tree) \subseteq EdgesOf(tree')
            /\ tree # <<>> =>
                  \E p \in DOMAIN tree, d \in 0..HashBits :
                      EdgesOf(tree') \ EdgesOf(tree) = {<<p, d, Len(tree')>>}]_vars

\* a full tree with an equal hash chained under label 0, an edge of
\* eleven bits or more and a node three edges below the root
C26_Witness ==
    /\ Len(tree) = MaxDeepInserts
    /\ \E p \in DOMAIN tree : 0 \in DOMAIN tree[p].children
    /\ \E e \in EdgesOf(tree) : e[2] >= 11
    /\ \E e1, e2, e3 \in EdgesOf(tree) : e1[3] = e2[1] /\ e2[3] = e3[1]

\* C27: after k inserts on a new tree size() returns k, also when hashes
\* were inserted again, and 0 on the empty tree.
C27_SizeCountsInserts == size(tree) = Len(inserted)

\* as many inserts as are made, one hash among them three times
C27_Witness ==
    /\ Len(inserted) = MaxDeepInserts
    /\ \E h \in Range(inserted) :
          Cardinality({k \in DOMAIN inserted : inserted[k] = h}) >= 3
    /\ size(tree) = MaxDeepInserts

\* the components of the unionFind u, by the roots find returns
PartitionOf(u) ==
    { {y \in DOMAIN u.parent : find(u, y).root = find(u, x).root} :
        x \in DOMAIN u.parent }

\* C28: union(x, y) on x and y of the same component, union(x, x)
\* included, leaves the partition into components and every rank as they
\* were (as does find).
C28_UnionSameComponentNoOp ==
    [][(\/ ufPairs' = ufPairs
        \/ \E xy \in ufPairs' \ ufPairs : SameRoot(xy[1], xy[2])) =>
            /\ uf'.rank = uf.rank
            /\ PartitionOf(uf') = PartitionOf(uf)]_vars

\* three unions on three indices: the last of them was on a pair that the
\* two before it had joined
C28_Witness ==
    /\ \E x, y, z \in DOMAIN uf.parent :
          /\ x # y /\ y # z /\ x # z
          /\ ufPairs = {<<x, y>>, <<y, z>>, <<z, x>>}
    /\ Cardinality(PartitionOf(uf)) = UFSize - 2

\* the number of parent links from x to its root
RECURSIVE Depth(_, _)
Depth(u, x) == IF u.parent[x] = x THEN 0 ELSE 1 + Depth(u, u.parent[x])

\* C29: in every reachable state of the unionFind, after path compression
\* too, every non-root has a smaller rank than its parent; find ends at an
\* index that is its own parent, and no index is further from its root than
\* the rank of that root.
C29_RankIncreasesToRoot ==
    \A x \in DOMAIN uf.parent :
        /\ uf.parent[x] # x => uf.rank[x] < uf.rank[uf.parent[x]]
        /\ uf.parent[find(uf, x).root] = find(uf, x).root
        /\ Depth(uf, x) <= uf.rank[find(uf, x).root]

\* a root of rank 2 over a tree that path compression has flattened
C29_Witness ==
    /\ \E r \in DOMAIN uf.parent : uf.parent[r] = r /\ uf.rank[r] = 2
    /\ \A x \in DOMAIN uf.parent : Depth(uf, x) <= 1
    /\ Cardinality(PartitionOf(uf)) = UFSize - 3

====
